---- MODULE Spec2Model ----
(***************************************************************************)
(* A model of logspout (src/logspout.go): the streamer adapters that drain *)
(* a channel of log records into a sink, the Colorizer, and the HTTP       *)
(* handlers of main().                                                     *)
(*                                                                         *)
(* Go strings whose characters matter (stream types, container names,      *)
(* container ids) are sequences of one-character strings, so that          *)
(* strings.Contains, slicing and the regular expression act on characters. *)
(* Payloads are opaque strings decoded by JsonDecode.                      *)
(***************************************************************************)
EXTENDS Integers, Sequences, FiniteSets, TLC

----------------------------------------------------------------------------
(* Bounds of the model *)

\* records handed to the streamers of one run (also the number of clock ticks)
MaxRecords == 3

\* ids the Route Manager assigns in one run
MaxIds == 2

\* distinct names given to one Colorizer
MaxNames == 16

----------------------------------------------------------------------------
(* String values used as inputs *)

stdout == <<"s", "t", "d", "o", "u", "t">>
stderr == <<"s", "t", "d", "e", "r", "r">>
stdout2 == <<"s", "t", "d", "o", "u", "t", "2">>
EmptyString == <<>>

NameWeb == <<"w", "e", "b", "-", "1">>
NameK8s == <<"k", "8", "s", "_", "m", "y", "a", "p", "p", ".", "0", "_", "m", "y", "p", "o", "d", ".", "m", "y", "n", "s", ".", "a", "p", "i", "_", "1">>
NameK8sUnderscore == <<"k", "8", "s", "_", "m", "y", "a", "p", "p", ".", "0", "_", "m", "y", "p", "o", "d", "_", "m", "y", "n", "s", "_", "1">>
NameK8sUnderscoreDot == <<"k", "8", "s", "_", "m", "y", "a", "p", "p", ".", "0", "_", "m", "y", "p", "o", "d", "_", "m", "y", "n", "s", "_", "a", ".", "b">>
myapp == <<"m", "y", "a", "p", "p">>
mypod == <<"m", "y", "p", "o", "d">>
myns == <<"m", "y", "n", "s">>

\* lists of accepted stream types a route can be posted with (Route.Types is
\* decoded from the request body and not validated)
TypeLists == { <<>>, <<stdout>>, <<stdout, stderr>>, <<stdout2>>, <<EmptyString>> }

DataObject == "{\"msg\":\"hi\"}"
DataObjectTs == "{\"@timestamp\":0}"
DataText == "not json"
DataNumber == "42"
DataNull == "null"

----------------------------------------------------------------------------
(* Go maps: a function with a finite domain; the empty map is <<>> *)

EmptyMap == <<>>

Put(m, k, v) == [x \in (DOMAIN m) \cup {k} |-> IF x = k THEN v ELSE m[x]]

\* entries of b written over those of a
Merge(a, b) == [x \in (DOMAIN a) \cup (DOMAIN b) |-> IF x \in DOMAIN b THEN b[x] ELSE a[x]]

----------------------------------------------------------------------------
(* strings.Join, strings.Contains and the type filter of the adapters *)

RECURSIVE Join(_, _)
Join(list, sep) ==
    IF list = <<>> THEN <<>>
    ELSE IF Len(list) = 1 THEN list[1]
    ELSE list[1] \o sep \o Join(Tail(list), sep)

Contains(s, substr) ==
    \E i \in 0..(Len(s) - Len(substr)) : SubSeq(s, i + 1, i + Len(substr)) = substr

\* typestr := "," + strings.Join(types, ",") + ","
TypeStr(types) == <<",">> \o Join(types, <<",">>) \o <<",">>

\* the negation of the `continue` condition of the three adapter loops
AcceptsMembership(types, type) ==
    types = <<>> \/ \E i \in 1..Len(types) : types[i] = type

Accepts(types, type) ==
    ~(TypeStr(types) # <<",", ",">> /\ ~Contains(TypeStr(types), type))

----------------------------------------------------------------------------
(* Colorizer.Get *)

RECURSIVE Itoa(_)
Itoa(n) ==
    LET digit == <<"0", "1", "2", "3", "4", "5", "6", "7", "8", "9">>
    IN  IF n < 10 THEN <<digit[n + 1]>> ELSE Itoa(n \div 10) \o <<digit[(n % 10) + 1]>>

\* the index Get leaves stored for key
ColorIndex(c, key) == IF key \in DOMAIN c THEN c[key] ELSE Cardinality(DOMAIN c)

\* every call stores a new index
ColorizerAfterReassign(c, key) == Put(c, key, Cardinality(DOMAIN c))

\* the map after Get(key)
ColorizerAfter(c, key) == IF key \in DOMAIN c THEN c ELSE Put(c, key, Cardinality(DOMAIN c))

BrightEvenOdd(i) == IF i % 2 = 1 THEN <<>> ELSE <<"1", ";">>

Bright(i) == IF i % 14 > 6 THEN <<>> ELSE <<"1", ";">>

\* the escape code Get returns for the name stored at index i
ColorCode(i) == <<"\\x1b", "[">> \o Bright(i) \o <<"3">> \o Itoa(7 - (i % 7)) \o <<"m">>

ColorizerGet(c, key) == ColorCode(ColorIndex(c, key))

IsBrightCode(code) == Len(code) >= 4 /\ SubSeq(code, 3, 4) = <<"1", ";">>

----------------------------------------------------------------------------
(* k8sContainerRE and FindStringSubmatch *)

\* the end of the longest run of characters other than ch that starts at i
\* (i - 1 when the run is empty)
Span(s, i, ch) ==
    CHOOSE j \in (i - 1)..Len(s) :
        /\ \A k \in i..j : s[k] # ch
        /\ (j = Len(s) \/ s[j + 1] = ch)

\* ^(?:[^_]+)_([^\.]+)\.(?:[^_]+)_([^\.]+)\.([^\.]+)
\* Each negated class is followed by the character it excludes, so the match
\* of each group is the whole run up to the next such character: no shorter
\* run can be followed by it. The result is <<whole, group1, group2, group3>>,
\* or <<>> when the name does not match.
FindStringSubmatch(name) ==
    LET n == Len(name)
        a == Span(name, 1, "_")
        b == Span(name, a + 2, ".")
        c == Span(name, b + 2, "_")
        d == Span(name, c + 2, ".")
        e == Span(name, d + 2, ".")
    IN  IF /\ a >= 1 /\ a < n
           /\ b >= a + 2 /\ b < n
           /\ c >= b + 2 /\ c < n
           /\ d >= c + 2 /\ d < n
           /\ e >= d + 2
        THEN << SubSeq(name, 1, e), SubSeq(name, a + 2, b),
                SubSeq(name, c + 2, d), SubSeq(name, d + 2, e) >>
        ELSE <<>>

\* the groups of the match assigned in another order
K8sContainerOfSwapped(name) ==
    LET match == FindStringSubmatch(name)
    IN  IF Len(match) > 0
        THEN [Name |-> match[2], Pod |-> match[4], Namespace |-> match[3]]
        ELSE [Name |-> <<>>, Pod |-> <<>>, Namespace |-> <<>>]

\* lines 129-138: the K8sContainer built for a name
K8sContainerOf(name) ==
    LET match == FindStringSubmatch(name)
    IN  IF Len(match) > 0
        THEN [Name |-> match[2], Pod |-> match[3], Namespace |-> match[4]]
        ELSE [Name |-> <<>>, Pod |-> <<>>, Namespace |-> <<>>]

----------------------------------------------------------------------------
(* json.Unmarshal([]byte(logline.Data), &tmpMap) *)

\* what the payload is as JSON
JsonDecode(data) ==
    CASE data = DataObject   -> [kind |-> "object", fields |-> ("msg" :> "hi")]
      [] data = DataObjectTs -> [kind |-> "object", fields |-> ("@timestamp" :> 0)]
      [] data = DataNumber   -> [kind |-> "value", fields |-> EmptyMap]
      [] data = DataNull     -> [kind |-> "null", fields |-> EmptyMap]
      [] OTHER               -> [kind |-> "invalid", fields |-> EmptyMap]

\* tm is [nil, m]: a Go map variable, nil or holding entries.
\* A JSON object is decoded into the map the variable holds (a nil map is
\* replaced by a new one, a non-nil map is reused and keeps its entries);
\* null sets the variable to nil without an error; anything else is an error
\* and leaves the variable alone.
JsonUnmarshal(data, tm) ==
    LET j == JsonDecode(data)
    IN  CASE j.kind = "object" ->
               [err |-> FALSE, nil |-> FALSE,
                m |-> IF tm.nil THEN j.fields ELSE Merge(tm.m, j.fields)]
          [] j.kind = "null" -> [err |-> FALSE, nil |-> TRUE, m |-> EmptyMap]
          [] OTHER -> [err |-> TRUE, nil |-> tm.nil, m |-> tm.m]

----------------------------------------------------------------------------
(* Log records *)

Log(name, type, data) == [Name |-> name, Type |-> type, Data |-> data, Image |-> "img"]

\* records offered to the indexing adapter: every payload shape, matching and
\* non-matching names, both stream types
IndexRecords ==
    { Log(NameWeb, stdout, d) : d \in {DataObject, DataObjectTs, DataText, DataNumber, DataNull} }
    \cup { Log(NameK8s, stdout, d) : d \in {DataObject, DataText} }
    \cup { Log(NameK8sUnderscore, stdout, DataObject),
           Log(NameK8sUnderscoreDot, stdout, DataObject),
           Log(NameWeb, stderr, DataText) }

\* records offered to the adapters that forward the payload as it is
LineRecords == { Log(NameWeb, stdout, DataText), Log(NameK8s, stderr, DataText) }

TargetTypes == {"syslog", "udp", "elasticsearch"}

----------------------------------------------------------------------------
VARIABLES
    proc,        \* "running", or how the process ended: "fatal" (log.Fatal), "panic"
    clock,       \* time.Now(), one tick per record handed to a streamer
    target,      \* the route's Target
    types,       \* the route's list of accepted stream types
    routeChan,   \* the route's logstream: "open" or "closed"
    routePc,     \* the route's streamer: "start", "range" (at the loop head), "done"
    recvd,       \* the records the route's streamer took from its logstream
    passed,      \* those of them that passed the type filter (were not skipped)
    dials,       \* syslog.Dial calls: [tag, ok]
    sink,        \* what the route's adapter handed to its sink, in order
    udpConn,     \* the UDP socket: "none", "open", "closed"
    tmpMap,      \* the indexing adapter's tmpMap: [nil, m]
    k8sContainer,\* the indexing adapter's k8sContainer of the last accepted record
    attached,    \* the containers the Attach Manager is attached to
    hpc,         \* the GET /logs handler: "idle", "calling" (before Listen), "listen", "done"
    resp,        \* its outcome: "none", "stream", "404", "panic"
    req,         \* the request it serves
    source,      \* the Source it built
    lpc,         \* attacher.Listen of the request: "idle", "blocked", "returned"
    registered,  \* whether logstream is in the Attach Manager's listener registry
    logstream,   \* the request's channel: "none", "open", "closed"
    closes,      \* how many times close(logstream) was called
    spc,         \* the request's streamer: "none", "range", "closer" (blocked in closer <- true), "done"
    connOk,      \* whether the client is still connected
    closeNotify, \* a value is waiting on the CloseNotify channel
    colors,      \* the response's Colorizer
    nameWidth,   \* httpStreamer's nameWidth
    written,     \* the writes to the response, in order
    flushes,     \* the number of Flush calls
    startup,     \* main(): "args" (before the command-line route), "load", "serving"
    routes,      \* the Route Manager's routes in memory: id -> route
    store,       \* the persisted routes: id -> route
    persistor,   \* whether the store is attached to the Route Manager
    ids,         \* how many ids the Route Manager has assigned
    reply,       \* the answer of the last /routes request
    lastKey,     \* the key of the last Colorizer.Get call
    lastCode,    \* the escape code it returned
    returned     \* the escape codes Get has returned, by key

routeVars == <<target, types, routeChan, routePc, recvd, passed, dials, sink, udpConn, tmpMap, k8sContainer>>

reqVars == <<attached, hpc, resp, req, source, lpc, registered, logstream, closes, spc, connOk, closeNotify>>

outVars == <<colors, nameWidth, written, flushes>>

mgrVars == <<startup, routes, store, persistor, ids, reply>>

getVars == <<lastKey, lastCode, returned>>

vars == <<proc, clock, routeVars, reqVars, outVars, mgrVars, getVars>>

\* nameWidth := 16
NameWidth == 16

\* source.ID = params["value"][:12]
IdLen == 12

IdWeb == <<"4", "f", "2", "c", "9", "a", "1", "b", "7", "d", "3", "e">>
IdK8s == <<"9", "e", "8", "d", "7", "c", "6", "b", "5", "a", "4", "f">>
IdGone == <<"0", "1", "2", "3", "4", "5", "6", "7", "8", "9", "a", "b">>
IdShort == <<"a", "b", "c">>
IdWebLong == <<"4", "f", "2", "c", "9", "a", "1", "b", "7", "d", "3", "e", "5", "5", "a", "a">>
FilterWeb == <<"w", "e", "b">>

Containers == { [ID |-> IdWeb, Name |-> NameWeb], [ID |-> IdK8s, Name |-> NameK8s] }

\* GET /logs[/<predicate>:<value>]
LogRequests ==
    { [predicate |-> "", value |-> <<>>],
      [predicate |-> "id", value |-> IdWeb],
      [predicate |-> "id", value |-> IdWebLong],
      [predicate |-> "id", value |-> IdGone],
      [predicate |-> "id", value |-> IdShort],
      [predicate |-> "name", value |-> NameWeb],
      [predicate |-> "filter", value |-> FilterWeb] }

\* the Upgrade and Accept headers, the colors parameter, and the stream type
\* given in the parameter the streamer reads ("types", or "type" on a websocket)
LogModes ==
    { [upgrade |-> u, accept |-> a, colors |-> c, type |-> t] :
        u \in {"", "websocket"}, a \in {"", "application/json"},
        c \in {"", "off"}, t \in {<<>>, stdout} }

NoSource == [ID |-> <<>>, Name |-> <<>>, Filter |-> <<>>]

NoReply == [op |-> "none", status |-> 0, body |-> <<>>]

NoRequest == [predicate |-> "", value |-> <<>>, upgrade |-> "", accept |-> "",
              colors |-> "", type |-> <<>>, multi |-> FALSE]

alive == proc = "running"

NoK8sContainer == [Name |-> <<>>, Pod |-> <<>>, Namespace |-> <<>>]

\* no route is configured
RouteIdle ==
    /\ target = [Type |-> "none", AppendTag |-> <<>>]
    /\ types = <<>>
    /\ routeChan = "closed"
    /\ routePc = "done"
    /\ recvd = <<>>
    /\ passed = <<>>
    /\ dials = <<>>
    /\ sink = <<>>
    /\ udpConn = "none"
    /\ tmpMap = [nil |-> TRUE, m |-> EmptyMap]
    /\ k8sContainer = NoK8sContainer

\* no GET /logs request was made
RequestIdle ==
    /\ attached = Containers
    /\ hpc = "idle"
    /\ resp = "none"
    /\ req = NoRequest
    /\ source = NoSource
    /\ lpc = "idle"
    /\ registered = FALSE
    /\ logstream = "none"
    /\ closes = 0
    /\ spc = "none"
    /\ connOk = TRUE
    /\ closeNotify = FALSE

\* nothing was written to a response
OutputIdle ==
    /\ colors = EmptyMap
    /\ nameWidth = NameWidth
    /\ written = <<>>
    /\ flushes = 0

\* main() is serving, with no route and no store
ManagerIdle ==
    /\ startup = "serving"
    /\ routes = EmptyMap
    /\ store = EmptyMap
    /\ persistor = FALSE
    /\ ids = 0
    /\ reply = NoReply

\* Colorizer.Get was not called
GetIdle ==
    /\ lastKey = <<>>
    /\ lastCode = <<>>
    /\ returned = EmptyMap

\* the state after main() added one route of some type and its streamer
\* goroutine was started (for "udp", before the socket is opened)
Init ==
    /\ proc = "running"
    /\ clock = 1
    /\ \E t \in TargetTypes : target = [Type |-> t, AppendTag |-> <<>>]
    /\ types \in TypeLists
    /\ routeChan = "open"
    /\ routePc = IF target.Type = "udp" THEN "start" ELSE "range"
    /\ recvd = <<>>
    /\ passed = <<>>
    /\ dials = <<>>
    /\ sink = <<>>
    /\ udpConn = "none"
    /\ tmpMap = [nil |-> TRUE, m |-> EmptyMap]
    /\ k8sContainer = NoK8sContainer
    \* and a client has subscribed with GET /logs
    /\ attached = Containers
    /\ hpc = "listen"
    /\ resp = "stream"
    /\ req = [NoRequest EXCEPT !.multi = TRUE]
    /\ source = NoSource
    /\ lpc = "blocked"
    /\ registered = TRUE
    /\ logstream = "open"
    /\ closes = 0
    /\ spc = "range"
    /\ connOk = TRUE
    /\ closeNotify = FALSE
    /\ OutputIdle
    /\ ManagerIdle
    /\ GetIdle

\* a streamer takes the next record of its logstream: the route is running,
\* at the head of its range loop, and the channel is open
RouteReceives(type) ==
    /\ alive
    /\ target.Type = type
    /\ routePc = "range"
    /\ routeChan = "open"
    /\ clock <= MaxRecords

\* assert(err, context): log.Fatal ends the process when err is not nil
assertNoExit(ok) == "running"

assert(ok) == IF ok THEN "running" ELSE "fatal"

----------------------------------------------------------------------------
(* syslogStreamer *)

SyslogStreamer(logline, dialOk) ==
    /\ RouteReceives("syslog")
    /\ recvd' = Append(recvd, logline)
    /\ clock' = clock + 1
    /\ IF ~Accepts(types, logline.Type)
       THEN UNCHANGED <<proc, passed, dials, sink>>
       ELSE LET tag == logline.Name \o target.AppendTag
            IN  /\ passed' = Append(passed, logline)
                /\ dials' = Append(dials, [tag |-> tag, ok |-> dialOk])
                /\ proc' = assert(dialOk)
                /\ sink' = IF proc' = "running"
                           THEN Append(sink, [tag |-> tag, data |-> logline.Data, ok |-> dialOk])
                           ELSE sink
    /\ UNCHANGED <<target, types, routeChan, routePc, udpConn, tmpMap, k8sContainer>>
    /\ UNCHANGED <<reqVars, outVars, mgrVars, getVars>>

\* the range loop ends when the logstream is closed
SyslogStreamerReturn ==
    /\ alive
    /\ target.Type = "syslog"
    /\ routePc = "range"
    /\ routeChan = "closed"
    /\ routePc' = "done"
    /\ UNCHANGED <<proc, clock, target, types, routeChan, recvd, passed, dials, sink, udpConn, tmpMap, k8sContainer>>
    /\ UNCHANGED <<reqVars, outVars, mgrVars, getVars>>

----------------------------------------------------------------------------
(* udpStreamer *)

\* lines 76-82: resolve the address and open the socket; either failing is fatal
UdpStreamerStart(resolveOk, dialOk) ==
    /\ alive
    /\ target.Type = "udp"
    /\ routePc = "start"
    /\ proc' = IF assert(resolveOk) = "running" THEN assert(dialOk) ELSE assert(resolveOk)
    /\ IF proc' = "running"
       THEN udpConn' = "open" /\ routePc' = "range"
       ELSE UNCHANGED <<udpConn, routePc>>
    /\ UNCHANGED <<clock, target, types, routeChan, recvd, passed, dials, sink, tmpMap, k8sContainer>>
    /\ UNCHANGED <<reqVars, outVars, mgrVars, getVars>>

\* a failed send is tried again
UdpEncodeRetry(logline, sendOk) ==
    IF sendOk THEN <<[rec |-> logline, ok |-> TRUE]>>
    ELSE <<[rec |-> logline, ok |-> FALSE], [rec |-> logline, ok |-> TRUE]>>

\* encoder.Encode(logline): the record marshals (all its fields are strings)
\* and is written to the socket once; the error of the write is not looked at
UdpEncode(logline, sendOk) == <<[rec |-> logline, ok |-> sendOk]>>

\* what the loop does after Encode returned: it goes on to the next record
UdpAfterEncodeStop(sendOk) == IF sendOk THEN "range" ELSE "done"

UdpAfterEncode(sendOk) == "range"

UdpStreamer(logline, sendOk) ==
    /\ RouteReceives("udp")
    /\ recvd' = Append(recvd, logline)
    /\ clock' = clock + 1
    /\ IF ~Accepts(types, logline.Type)
       THEN UNCHANGED <<passed, sink, routePc, udpConn>>
       ELSE /\ passed' = Append(passed, logline)
            /\ sink' = sink \o UdpEncode(logline, sendOk)
            /\ routePc' = UdpAfterEncode(sendOk)
            /\ udpConn' = IF routePc' = "done" THEN "closed" ELSE udpConn
    /\ UNCHANGED <<proc, target, types, routeChan, dials, tmpMap, k8sContainer>>
    /\ UNCHANGED <<reqVars, outVars, mgrVars, getVars>>

\* the range loop ends when the logstream is closed; defer conn.Close()
UdpStreamerReturn ==
    /\ alive
    /\ target.Type = "udp"
    /\ routePc = "range"
    /\ routeChan = "closed"
    /\ routePc' = "done"
    /\ udpConn' = "closed"
    /\ UNCHANGED <<proc, clock, target, types, routeChan, recvd, passed, dials, sink, tmpMap, k8sContainer>>
    /\ UNCHANGED <<reqVars, outVars, mgrVars, getVars>>

----------------------------------------------------------------------------
(* elasticsearchStreamer *)

Present(tm, key) == ~tm.nil /\ key \in DOMAIN tm.m

\* lines 142-152: the document after the payload was decoded; "panic" when
\* the timestamp is assigned into a nil map
DocumentOf(logline, now, tm) ==
    LET u == JsonUnmarshal(logline.Data, tm)
    IN  IF u.err
        THEN [panic |-> FALSE, nil |-> FALSE,
              m |-> ("@timestamp" :> now @@ "message" :> logline.Data)]
        ELSE IF Present(u, "@timestamp")
             THEN [panic |-> FALSE, nil |-> u.nil, m |-> u.m]
             ELSE IF u.nil
                  THEN [panic |-> TRUE, nil |-> TRUE, m |-> EmptyMap]
                  ELSE [panic |-> FALSE, nil |-> FALSE, m |-> Put(u.m, "@timestamp", now)]

\* lines 153-159: container, image and the k8s fields
Enrich(m, logline, k8s) ==
    LET base == Put(Put(m, "container", logline.Name), "image", logline.Image)
    IN  IF Len(k8s.Pod) > 0
        THEN Put(Put(Put(base, "k8s_pod", k8s.Pod), "k8s_container", k8s.Name),
                 "k8s_namespace", k8s.Namespace)
        ELSE base

ElasticsearchStreamer(logline) ==
    /\ RouteReceives("elasticsearch")
    /\ recvd' = Append(recvd, logline)
    /\ clock' = clock + 1
    /\ IF ~Accepts(types, logline.Type)
       THEN UNCHANGED <<proc, passed, sink, tmpMap, k8sContainer>>
       ELSE LET now == clock
                k8s == K8sContainerOf(logline.Name)
                d == DocumentOf(logline, now, tmpMap)
            IN  /\ passed' = Append(passed, logline)
                /\ k8sContainer' = k8s
                /\ IF d.panic
                   THEN /\ proc' = "panic"
                        /\ tmpMap' = [nil |-> TRUE, m |-> EmptyMap]
                        /\ sink' = sink
                   ELSE /\ proc' = proc
                        /\ tmpMap' = [nil |-> FALSE, m |-> Enrich(d.m, logline, k8s)]
                        /\ sink' = Append(sink, [index |-> <<"logstash-", now>>,
                                                  rec |-> logline,
                                                  doc |-> tmpMap'.m])
    /\ UNCHANGED <<target, types, routeChan, routePc, dials, udpConn>>
    /\ UNCHANGED <<reqVars, outVars, mgrVars, getVars>>

\* the range loop ends when the logstream is closed; defer indexer.Stop()
ElasticsearchStreamerReturn ==
    /\ alive
    /\ target.Type = "elasticsearch"
    /\ routePc = "range"
    /\ routeChan = "closed"
    /\ routePc' = "done"
    /\ UNCHANGED <<proc, clock, target, types, routeChan, recvd, passed, dials, sink, udpConn, tmpMap, k8sContainer>>
    /\ UNCHANGED <<reqVars, outVars, mgrVars, getVars>>

----------------------------------------------------------------------------
(* the route's logstream is closed when the route is removed *)

CloseRouteChannel ==
    /\ alive
    /\ routeChan = "open"
    /\ routePc # "start"
    /\ routeChan' = "closed"
    /\ UNCHANGED <<proc, clock, target, types, routePc, recvd, passed, dials, sink, udpConn, tmpMap, k8sContainer>>
    /\ UNCHANGED <<reqVars, outVars, mgrVars, getVars>>

----------------------------------------------------------------------------
(* The Attach Manager, as the handlers use it *)

\* attacher.Get(id): the attached container with that id, if any
AttacherGet(id) == { c \in attached : c.ID = id }

\* Source.All(): no predicate is set
SourceAll(src) == src.ID = <<>> /\ src.Name = <<>> /\ src.Filter = <<>>

\* whether a container is one the Source selects
Matches(src, c) ==
    \/ SourceAll(src)
    \/ src.ID # <<>> /\ c.ID = src.ID
    \/ src.Name # <<>> /\ c.Name = src.Name
    \/ src.Filter # <<>> /\ Contains(c.Name, src.Filter)

\* the reader of an attached container the Source selects hands logline to
\* the request's registered, open channel, whose streamer is at its loop head
LogstreamOffers(logline) ==
    /\ alive
    /\ registered
    /\ logstream = "open"
    /\ spc = "range"
    /\ clock <= MaxRecords
    /\ \E c \in attached : c.Name = logline.Name /\ Matches(source, c)

\* a write to the response can fail once the client is gone
WriteResults == IF connOk THEN {TRUE} ELSE BOOLEAN

----------------------------------------------------------------------------
(* httpStreamer *)

usejson == req.accept = "application/json"

usecolor == req.colors # "off"

\* every record written as its raw payload
HttpLineRaw(logline, width) == [fmt |-> "raw", color |-> <<>>, width |-> 0, rec |-> logline]

\* lines 200-220: the line written for a record
HttpLine(logline, width) ==
    IF usejson
    THEN [fmt |-> "json", color |-> <<>>, width |-> 0, rec |-> logline]
    ELSE IF req.multi
         THEN IF usecolor
              THEN [fmt |-> "color", color |-> ColorizerGet(colors, logline.Name),
                    width |-> width, rec |-> logline]
              ELSE [fmt |-> "plain", color |-> <<>>, width |-> width, rec |-> logline]
         ELSE [fmt |-> "raw", color |-> <<>>, width |-> 0, rec |-> logline]

HttpStreamer(logline, writeOk) ==
    /\ LogstreamOffers(logline)
    /\ req.upgrade # "websocket"
    /\ clock' = clock + 1
    /\ IF req.type # <<>> /\ logline.Type # req.type
       THEN UNCHANGED <<colors, nameWidth, written, flushes>>
       ELSE /\ nameWidth' = IF ~usejson /\ req.multi /\ Len(logline.Name) > nameWidth
                            THEN Len(logline.Name) ELSE nameWidth
            /\ colors' = IF ~usejson /\ req.multi /\ usecolor
                         THEN ColorizerAfter(colors, logline.Name) ELSE colors
            /\ written' = Append(written, [line |-> HttpLine(logline, nameWidth'), ok |-> writeOk])
            /\ flushes' = flushes + 1
    /\ UNCHANGED <<proc, routeVars, reqVars, mgrVars, getVars>>

\* the range loop ends when logstream is closed
HttpStreamerReturn ==
    /\ alive
    /\ req.upgrade # "websocket"
    /\ spc = "range"
    /\ logstream = "closed"
    /\ spc' = "done"
    /\ UNCHANGED <<proc, clock, routeVars, outVars, mgrVars, getVars>>
    /\ UNCHANGED <<attached, hpc, resp, req, source, lpc, registered, logstream, closes, connOk, closeNotify>>

----------------------------------------------------------------------------
(* websocketStreamer *)

\* lines 174-177: after a failed write the handler sends on closer and returns
WsAfterWriteIgnoreError(writeOk) == "range"

WsAfterWrite(writeOk) == IF writeOk THEN "range" ELSE "closer"

WebsocketStreamer(logline, writeOk) ==
    /\ LogstreamOffers(logline)
    /\ req.upgrade = "websocket"
    /\ clock' = clock + 1
    /\ IF req.type # <<>> /\ logline.Type # req.type
       THEN UNCHANGED <<written, spc>>
       ELSE /\ written' = Append(written,
                  [line |-> [fmt |-> "json", color |-> <<>>, width |-> 0, rec |-> logline],
                   ok |-> writeOk])
            /\ spc' = WsAfterWrite(writeOk)
    /\ UNCHANGED <<proc, routeVars, colors, nameWidth, flushes, mgrVars, getVars>>
    /\ UNCHANGED <<attached, hpc, resp, req, source, lpc, registered, logstream, closes, connOk, closeNotify>>

\* the range loop ends when logstream is closed
WebsocketStreamerReturn ==
    /\ alive
    /\ req.upgrade = "websocket"
    /\ spc = "range"
    /\ logstream = "closed"
    /\ spc' = "done"
    /\ UNCHANGED <<proc, clock, routeVars, outVars, mgrVars, getVars>>
    /\ UNCHANGED <<attached, hpc, resp, req, source, lpc, registered, logstream, closes, connOk, closeNotify>>

----------------------------------------------------------------------------
(* GET /logs *)

\* lines 252-260: the Source of the request; params["value"][:12] panics when
\* the value has fewer than 12 characters
SlicePanics(r) == r.predicate = "id" /\ r.value # <<>> /\ Len(r.value) < IdLen

SourceOf(r) ==
    CASE r.predicate = "id" /\ r.value # <<>> -> [NoSource EXCEPT !.ID = SubSeq(r.value, 1, IdLen)]
      [] r.predicate = "name" /\ r.value # <<>> -> [NoSource EXCEPT !.Name = r.value]
      [] r.predicate = "filter" /\ r.value # <<>> -> [NoSource EXCEPT !.Filter = r.value]
      [] OTHER -> NoSource

\* lines 252-278: up to the call of Listen
GetLogs(r, m) ==
    /\ alive
    /\ hpc = "idle"
    /\ IF SlicePanics(r)
       THEN /\ hpc' = "done"
            /\ resp' = "panic"
            /\ req' = [predicate |-> r.predicate, value |-> r.value, upgrade |-> m.upgrade,
                       accept |-> m.accept, colors |-> m.colors, type |-> m.type,
                       multi |-> FALSE]
            /\ UNCHANGED <<source, logstream, spc>>
       ELSE LET src == SourceOf(r)
            IN  /\ source' = src
                /\ req' = [predicate |-> r.predicate, value |-> r.value, upgrade |-> m.upgrade,
                           accept |-> m.accept, colors |-> m.colors, type |-> m.type,
                           multi |-> SourceAll(src) \/ src.Filter # <<>>]
                /\ IF src.ID # <<>> /\ AttacherGet(src.ID) = {}
                   THEN /\ hpc' = "done"
                        /\ resp' = "404"
                        /\ UNCHANGED <<logstream, spc>>
                   ELSE /\ hpc' = "calling"
                        /\ resp' = "stream"
                        /\ logstream' = "open"
                        /\ spc' = "range"
    /\ UNCHANGED <<proc, clock, routeVars, outVars, mgrVars, getVars>>
    /\ UNCHANGED <<attached, lpc, registered, closes, connOk, closeNotify>>

\* attacher.Listen(source, logstream, closer) registers the channel and blocks;
\* for a container id that is no longer attached it returns at once
ListenCall ==
    /\ alive
    /\ hpc = "calling"
    /\ hpc' = "listen"
    /\ IF source.ID # <<>> /\ AttacherGet(source.ID) = {}
       THEN lpc' = "returned" /\ registered' = FALSE
       ELSE lpc' = "blocked" /\ registered' = TRUE
    /\ UNCHANGED <<proc, clock, routeVars, outVars, mgrVars, getVars>>
    /\ UNCHANGED <<attached, resp, req, source, logstream, closes, spc, connOk, closeNotify>>

\* Listen receives from closer: the CloseNotify value, or the value the
\* websocket streamer is blocked sending
ListenCancel ==
    /\ alive
    /\ lpc = "blocked"
    /\ IF req.upgrade = "websocket"
       THEN spc = "closer" /\ spc' = "done" /\ UNCHANGED closeNotify
       ELSE closeNotify /\ closeNotify' = FALSE /\ UNCHANGED spc
    /\ lpc' = "returned"
    /\ registered' = FALSE
    /\ UNCHANGED <<proc, clock, routeVars, outVars, mgrVars, getVars>>
    /\ UNCHANGED <<attached, hpc, resp, req, source, logstream, closes, connOk>>

\* Listen returns when the one container its Source names has ended
ListenEnded ==
    /\ alive
    /\ lpc = "blocked"
    /\ source.ID # <<>>
    /\ AttacherGet(source.ID) = {}
    /\ lpc' = "returned"
    /\ registered' = FALSE
    /\ UNCHANGED <<proc, clock, routeVars, outVars, mgrVars, getVars>>
    /\ UNCHANGED <<attached, hpc, resp, req, source, logstream, closes, spc, connOk, closeNotify>>

\* the handler returns after Listen: defer close(logstream), which panics on
\* a channel that is closed already
GetLogsReturn ==
    /\ alive
    /\ hpc = "listen"
    /\ lpc = "returned"
    /\ hpc' = "done"
    /\ closes' = closes + 1
    /\ IF logstream = "closed"
       THEN resp' = "panic" /\ UNCHANGED logstream
       ELSE logstream' = "closed" /\ UNCHANGED resp
    /\ UNCHANGED <<proc, clock, routeVars, outVars, mgrVars, getVars>>
    /\ UNCHANGED <<attached, req, source, lpc, registered, spc, connOk, closeNotify>>

\* a container dies: the Attach Manager closes the listener channels still
\* registered for it and drops the container
ContainerDies(c) ==
    /\ alive
    /\ c \in attached
    /\ attached' = attached \ {c}
    /\ IF registered /\ Matches(source, c) /\ logstream = "open"
       THEN logstream' = "closed" /\ closes' = closes + 1 /\ registered' = FALSE
       ELSE UNCHANGED <<logstream, closes, registered>>
    /\ UNCHANGED <<proc, clock, routeVars, outVars, mgrVars, getVars>>
    /\ UNCHANGED <<hpc, resp, req, source, lpc, spc, connOk, closeNotify>>

\* the client goes away; net/http then delivers a value on CloseNotify
ClientDisconnect ==
    /\ alive
    /\ hpc \in {"calling", "listen"}
    /\ connOk
    /\ connOk' = FALSE
    /\ closeNotify' = (req.upgrade # "websocket")
    /\ UNCHANGED <<proc, clock, routeVars, outVars, mgrVars, getVars>>
    /\ UNCHANGED <<attached, hpc, resp, req, source, lpc, registered, logstream, closes, spc>>

\* the state after main() started with no route: no request yet
InitLogs ==
    /\ proc = "running"
    /\ clock = 1
    /\ RouteIdle
    /\ RequestIdle
    /\ OutputIdle
    /\ ManagerIdle
    /\ GetIdle

NextLogs ==
    \/ \E r \in LogRequests, m \in LogModes : GetLogs(r, m)
    \/ ListenCall
    \/ ListenCancel
    \/ ListenEnded
    \/ GetLogsReturn
    \/ \E c \in Containers : ContainerDies(c)
    \/ ClientDisconnect
    \/ \E l \in LineRecords, ok \in WriteResults : HttpStreamer(l, ok)
    \/ HttpStreamerReturn
    \/ \E l \in LineRecords, ok \in WriteResults : WebsocketStreamer(l, ok)
    \/ WebsocketStreamerReturn

SpecLogs == InitLogs /\ [][NextLogs]_vars

Next ==
    \/ \E l \in LineRecords, ok \in BOOLEAN : SyslogStreamer(l, ok)
    \/ SyslogStreamerReturn
    \/ \E r \in BOOLEAN, d \in BOOLEAN : UdpStreamerStart(r, d)
    \/ \E l \in LineRecords, ok \in BOOLEAN : UdpStreamer(l, ok)
    \/ UdpStreamerReturn
    \/ \E l \in IndexRecords : ElasticsearchStreamer(l)
    \/ ElasticsearchStreamerReturn
    \/ CloseRouteChannel
    \/ \E l \in LineRecords, ok \in WriteResults : HttpStreamer(l, ok)

Spec == Init /\ [][Next]_vars

----------------------------------------------------------------------------
(* The Route Manager, as main() and the /routes handlers use it *)

\* ids the Route Manager assigns, in order
RouteIds == <<"r1", "r2", "r3", "r4", "r5">>

Route(id, type) == [ID |-> id, Type |-> type]

\* request bodies of POST /routes: one that does not decode, and routes with
\* and without an id, of a known and of an unknown target type
RouteBodies ==
    { [decodes |-> FALSE, route |-> Route("", "")] }
    \cup { [decodes |-> TRUE, route |-> Route(i, t)] : i \in {"", "mine"}, t \in {"syslog", "udp", "bogus"} }

\* Add(route): an id is assigned if none is given; a target type no adapter
\* matches is refused (UnknownTargetType) and the route is not stored;
\* otherwise the route is kept in memory and, with a store attached, persisted
RouteAdd(route) ==
    LET assign == route.ID = ""
        r == IF assign THEN [route EXCEPT !.ID = RouteIds[ids + 1]] ELSE route
    IN  IF route.Type \notin TargetTypes
        THEN [err |-> TRUE, route |-> route, routes |-> routes, store |-> store, ids |-> ids]
        ELSE [err |-> FALSE, route |-> r,
              routes |-> Put(routes, r.ID, r),
              store |-> IF persistor THEN Put(store, r.ID, r) ELSE store,
              ids |-> IF assign THEN ids + 1 ELSE ids]

Without(m, k) == [x \in (DOMAIN m) \ {k} |-> m[x]]

\* lines 236-242: the optional command-line route, added before the store is
\* attached; what Add returns is not looked at
StartupAdd(hasArg, scheme) ==
    /\ alive
    /\ startup = "args"
    /\ startup' = "load"
    /\ IF hasArg
       THEN LET a == RouteAdd(Route("", scheme))
            IN  routes' = a.routes /\ store' = a.store /\ ids' = a.ids
       ELSE UNCHANGED <<routes, store, ids>>
    /\ UNCHANGED <<persistor, reply>>
    /\ UNCHANGED <<proc, clock, routeVars, reqVars, outVars, getVars>>

\* lines 244-247: with a routes directory, Load attaches the store and
\* instantiates every persisted route without persisting it again; an
\* unreadable store is fatal
StartupLoad(pathExists, loadOk) ==
    /\ alive
    /\ startup = "load"
    /\ startup' = "serving"
    /\ IF pathExists
       THEN /\ proc' = assert(loadOk)
            /\ IF loadOk
               THEN persistor' = TRUE /\ routes' = Merge(routes, store)
               ELSE UNCHANGED <<persistor, routes>>
       ELSE UNCHANGED <<proc, persistor, routes>>
    /\ UNCHANGED <<store, ids, reply>>
    /\ UNCHANGED <<clock, routeVars, reqVars, outVars, getVars>>

Serving == alive /\ startup = "serving"

\* GET /routes
GetRoutes ==
    /\ Serving
    /\ reply' = [op |-> "list", status |-> 200, body |-> routes]
    /\ UNCHANGED <<startup, routes, store, persistor, ids>>
    /\ UNCHANGED <<proc, clock, routeVars, reqVars, outVars, getVars>>

\* POST /routes: lines 289-300
PostRoutes(body) ==
    /\ Serving
    /\ body.decodes /\ body.route.ID = "" => ids < MaxIds
    /\ IF ~body.decodes
       THEN /\ reply' = [op |-> "post", status |-> 400, body |-> "Bad request"]
            /\ UNCHANGED <<routes, store, ids>>
       ELSE LET a == RouteAdd(body.route)
            IN  /\ routes' = a.routes
                /\ store' = a.store
                /\ ids' = a.ids
                /\ reply' = [op |-> "post", status |-> 201, body |-> a.route]
    /\ UNCHANGED <<startup, persistor>>
    /\ UNCHANGED <<proc, clock, routeVars, reqVars, outVars, getVars>>

\* GET /routes/:id
GetRoute(id) ==
    /\ Serving
    /\ reply' = IF id \in DOMAIN routes
                THEN [op |-> "get", status |-> 200, body |-> routes[id]]
                ELSE [op |-> "get", status |-> 404, body |-> id]
    /\ UNCHANGED <<startup, routes, store, persistor, ids>>
    /\ UNCHANGED <<proc, clock, routeVars, reqVars, outVars, getVars>>

\* DELETE /routes/:id: Remove(id) drops the route from memory and from the store
DeleteRoute(id) ==
    /\ Serving
    /\ reply' = [op |-> "delete", status |-> IF id \in DOMAIN routes THEN 200 ELSE 404, body |-> id]
    /\ routes' = Without(routes, id)
    /\ store' = IF persistor THEN Without(store, id) ELSE store
    /\ UNCHANGED <<startup, persistor, ids>>
    /\ UNCHANGED <<proc, clock, routeVars, reqVars, outVars, getVars>>

\* routes left in the store by an earlier run
StoredBefore == { EmptyMap, ("old" :> Route("old", "syslog")) }

\* main() after NewRouteManager
InitRoutes ==
    /\ proc = "running"
    /\ clock = 1
    /\ RouteIdle
    /\ RequestIdle
    /\ OutputIdle
    /\ GetIdle
    /\ startup = "args"
    /\ routes = EmptyMap
    /\ store \in StoredBefore
    /\ persistor = FALSE
    /\ ids = 0
    /\ reply = NoReply

RequestIds == {"mine", "old", "r1", "nosuch"}

NextRoutes ==
    \/ \E a \in BOOLEAN, t \in {"syslog", "bogus"} : StartupAdd(a, t)
    \/ \E e \in BOOLEAN, ok \in BOOLEAN : StartupLoad(e, ok)
    \/ GetRoutes
    \/ \E b \in RouteBodies : PostRoutes(b)
    \/ \E id \in RequestIds : GetRoute(id)
    \/ \E id \in RequestIds : DeleteRoute(id)

SpecRoutes == InitRoutes /\ [][NextRoutes]_vars

----------------------------------------------------------------------------
(* Colorizer.Get on one Colorizer *)

\* container names c1, c2, ...
Key(n) == <<"c">> \o Itoa(n)

ColorizerGetCall(key) ==
    /\ lastCode' = ColorizerGet(colors, key)
    /\ colors' = ColorizerAfter(colors, key)
    /\ lastKey' = key
    /\ returned' = Put(returned, key,
                       (IF key \in DOMAIN returned THEN returned[key] ELSE {}) \cup {lastCode'})
    /\ UNCHANGED <<nameWidth, written, flushes>>
    /\ UNCHANGED <<proc, clock, routeVars, reqVars, mgrVars>>

\* colors := make(Colorizer)
InitColor ==
    /\ proc = "running"
    /\ clock = 1
    /\ RouteIdle
    /\ RequestIdle
    /\ OutputIdle
    /\ ManagerIdle
    /\ GetIdle

\* Get is called with a name seen before or with a new one; the names are
\* told apart by equality alone, so new names are taken in the order c1, c2, ...
NextColor ==
    \E n \in 1..MaxNames :
        /\ n <= Cardinality(DOMAIN colors) + 1
        /\ ColorizerGetCall(Key(n))

SpecColor == InitColor /\ [][NextColor]_vars

\* Listen takes a ready case of its select: the Go scheduler runs a goroutine
\* that can proceed
FairSpecLogs == SpecLogs /\ WF_vars(ListenCancel) /\ WF_vars(ListenEnded)

----------------------------------------------------------------------------
(* Claims *)

RouteIsAdapter == target.Type \in TargetTypes

\* C1: each of the syslog, UDP/JSON and indexing adapters lets a record of its
\* channel through to its sink if and only if the route's list of accepted
\* stream types is empty or the record's stream type is a member of the list.
C1_ForwardsIffEmptyOrMember ==
    RouteIsAdapter =>
        passed = SelectSeq(recvd, LAMBDA l : AcceptsMembership(types, l.Type))

IsHttpRequest == hpc # "idle" /\ resp = "stream" /\ req.upgrade # "websocket"

IsWsRequest == hpc # "idle" /\ resp = "stream" /\ req.upgrade = "websocket"

\* C2: once a write of a record to the response failed, httpStreamer performs
\* no write and no flush for any later record: a failed write is the last
\* write, and no flush follows the one of its own record.
C2_StopsOnFirstWriteError ==
    IsHttpRequest =>
        /\ \A i \in 1..(Len(written) - 1) : written[i].ok
        /\ \A i \in 1..Len(written) : ~written[i].ok => flushes <= i

WsWriteFailed == IsWsRequest /\ \E i \in 1..Len(written) : ~written[i].ok

C3_Safety ==
    IsWsRequest =>
        \* no record is written after the failed write
        /\ \A i \in 1..(Len(written) - 1) : written[i].ok
        \* after it the streamer is sending on closer, or has sent and returned
        /\ WsWriteFailed => spc \in {"closer", "done"}
        \* the send completes only by Listen receiving, which makes it return
        \* and takes the channel out of the registry
        /\ (WsWriteFailed /\ spc = "done") => (lpc = "returned" /\ ~registered)

\* C3: in websocketStreamer, after the first failed write the streamer writes
\* no further record and sends on closer; the send is received by Listen,
\* which returns and drops the registration; and after a failed write Listen
\* does return.
C3_FailedWriteCancels == []C3_Safety /\ (WsWriteFailed ~> (lpc = "returned" /\ ~registered))

C3_Witness == WsWriteFailed /\ spc = "done" /\ lpc = "returned" /\ Len(written) >= 2

\* an attached container's id starts with the value, or the value with the id
NamesAttached(value) ==
    \E c \in attached :
        LET n == IF Len(value) < Len(c.ID) THEN Len(value) ELSE Len(c.ID)
        IN  SubSeq(value, 1, n) = SubSeq(c.ID, 1, n)

\* C4: GET /logs/id:<value>, for every non-empty value that names no attached
\* container, answers 404 without creating a listener channel or calling
\* Listen.
C4_UnattachedIdIs404 ==
    [][(/\ hpc = "idle" /\ hpc' # "idle"
        /\ req'.predicate = "id" /\ req'.value # <<>>
        /\ ~NamesAttached(req'.value))
       => (resp' = "404" /\ logstream' = "none" /\ lpc' = "idle")]_vars

IsIndexRoute == target.Type = "elasticsearch"

\* the time at which sink entry e was indexed
IndexedAt(e) == e.index[2]

\* C6: every accepted record of the indexing adapter is indexed, either as
\* its own document (the payload parses as a JSON object), with @timestamp
\* added when the payload has none, or as a document with the whole payload
\* under message and a generated @timestamp; no payload stops the adapter.
C6_EveryPayloadIsIndexed ==
    IsIndexRoute =>
        /\ proc = "running"
        /\ Len(sink) = Len(passed)
        /\ \A i \in 1..Len(sink) :
              LET j == JsonDecode(passed[i].Data)
                  doc == sink[i].doc
              IN  IF j.kind = "object"
                  THEN /\ \A k \in DOMAIN j.fields : k \in DOMAIN doc /\ doc[k] = j.fields[k]
                       /\ "@timestamp" \in DOMAIN doc
                  ELSE /\ "message" \in DOMAIN doc /\ doc["message"] = passed[i].Data
                       /\ "@timestamp" \in DOMAIN doc /\ doc["@timestamp"] = IndexedAt(sink[i])

K8sKeys == {"k8s_container", "k8s_pod", "k8s_namespace"}

IsPrefix(p, s) == Len(p) <= Len(s) /\ SubSeq(s, 1, Len(p)) = p

\* k8s_myapp.0_mypod_myns_
UnderscorePrefix == SubSeq(NameK8sUnderscore, 1, 23)

HasK8sFields(doc, container, pod, namespace) ==
    /\ K8sKeys \subseteq DOMAIN doc
    /\ doc["k8s_container"] = container
    /\ doc["k8s_pod"] = pod
    /\ doc["k8s_namespace"] = namespace

IsSyslogRoute == target.Type = "syslog"

DialFailed == \E i \in 1..Len(dials) : ~dials[i].ok

C8_Safety ==
    IsSyslogRoute =>
        \* a failed dial ends the process, at once
        /\ \A i \in 1..Len(dials) : ~dials[i].ok => (proc = "fatal" /\ i = Len(dials))
        \* only records that passed the type filter are dialled for
        /\ passed = SelectSeq(recvd, LAMBDA l : Accepts(types, l.Type))
        /\ Len(dials) = Len(passed)
        /\ \A i \in 1..Len(dials) : dials[i].tag = passed[i].Name \o target.AppendTag

\* C8: in the syslog adapter a failed dial for an accepted record ends the
\* whole process: after it no adapter and no ad-hoc streamer receives or
\* delivers anything; a record the type filter rejects is never dialled for.
C8_DialFailureIsFatal ==
    /\ []C8_Safety
    /\ [][DialFailed => UNCHANGED <<recvd, dials, sink, written, flushes>>]_vars

C8_Witness ==
    /\ IsSyslogRoute
    /\ DialFailed
    /\ proc = "fatal"
    /\ Len(recvd) > Len(passed)
    /\ Len(written) >= 1
    /\ routeChan = "open" /\ logstream = "open"

IsUdpRoute == target.Type = "udp"

C5_Created201OnlyIfStored ==
    reply.op = "post" =>
        /\ reply.status \in {400, 201}
        /\ reply.status = 201 =>
              /\ reply.body.ID # ""
              /\ reply.body.ID \in DOMAIN routes
              /\ routes[reply.body.ID] = reply.body
              /\ persistor => reply.body.ID \in DOMAIN store

LastIndex == colors[lastKey]

\* C10 as claimed: the name first seen at index i gets a bright code when i
\* is even and a dim code when i is odd.
C10_EvenBrightOddDim ==
    lastKey # <<>> => (IsBrightCode(lastCode) <=> LastIndex % 2 = 0)

\* C10 as amended: a name gets, on first sight, the next index (the number of
\* distinct names seen before it) and with it one of 14 rotating codes; the
\* code is bright for the first seven indices of each round of 14 (i % 14 in
\* 0..6) and dim for the last seven (i % 14 in 7..13).
C10_FirstSevenBright ==
    /\ \A n \in 1..MaxNames : Key(n) \in DOMAIN colors => colors[Key(n)] = n - 1
    /\ lastKey # <<>> =>
          /\ IsBrightCode(lastCode) <=> LastIndex % 14 <= 6
          /\ lastCode = <<"\\x1b", "[">> \o (IF LastIndex % 14 <= 6 THEN <<"1", ";">> ELSE <<>>)
                          \o <<"3">> \o Itoa(7 - (LastIndex % 7)) \o <<"m">>

C10_Witness ==
    /\ Cardinality(DOMAIN colors) >= 15
    /\ lastKey = Key(9)
    /\ ~IsBrightCode(lastCode)

\* C11: in every interleaving of container death, client disconnect, websocket
\* write failure and the return of the GET /logs handler, the request's
\* logstream is closed exactly once (never by the Attach Manager and by the
\* handler's deferred close both), and no record is delivered from it after
\* it was closed.
C11_ClosedExactlyOnce ==
    /\ [](closes <= 1 /\ (hpc = "done" /\ logstream # "none" => closes = 1))
    /\ [][logstream = "closed" => UNCHANGED written]_vars

\* the handler, Listen and the streamers take a step they can take
FairSpecRequest ==
    /\ SpecLogs
    /\ WF_vars(ListenCancel) /\ WF_vars(ListenEnded) /\ WF_vars(GetLogsReturn)
    /\ WF_vars(HttpStreamerReturn) /\ WF_vars(WebsocketStreamerReturn)

\* C12: for every GET /logs request, once Listen has returned the request's
\* streamer eventually terminates, the websocket streamer included when one
\* of its writes failed as Listen returned.
C12_StreamerTerminates == (lpc = "returned") ~> (spc = "done")

\* the document of a record indexed at time now by an adapter that has
\* processed nothing before
FreshDocument(logline, now) ==
    Enrich(DocumentOf(logline, now, [nil |-> TRUE, m |-> EmptyMap]).m,
           logline, K8sContainerOf(logline.Name))

\* C13: the document indexed for a record depends only on that record and on
\* the time it is indexed at, not on the records before it: it is the
\* document an adapter that has processed nothing before would index, so it
\* has no payload field, @timestamp or k8s_* field of an earlier record.
C13_DocumentOfRecordAlone ==
    IsIndexRoute =>
        \A i \in 1..Len(sink) :
            /\ sink[i].doc = FreshDocument(sink[i].rec, IndexedAt(sink[i]))
            /\ FindStringSubmatch(sink[i].rec.Name) = <<>>
                  => K8sKeys \cap DOMAIN sink[i].doc = {}

\* a range loop over a closed channel ends
FairSpec == Spec /\ WF_vars(SyslogStreamerReturn) /\ WF_vars(UdpStreamerReturn)

IsLineRoute == IsSyslogRoute \/ IsUdpRoute

\* the i-th sink write is the write of record l
SinkWriteOf(i, l) ==
    IF IsSyslogRoute
    THEN sink[i].tag = l.Name \o target.AppendTag /\ sink[i].data = l.Data
    ELSE sink[i].rec = l

LoopEndsWhenClosed == (IsLineRoute /\ routeChan = "closed") ~> (routePc = "done")

C15_MemoryEqualsStoreAfterStartup ==
    (Serving /\ persistor) => DOMAIN routes = DOMAIN store

SingleContainer == req.predicate \in {"id", "name"} /\ req.value # <<>>

AllOrFilter == req.predicate \notin {"id", "name", "filter"} \/ req.predicate = "filter"

\* the subscription's mode does not change, and each written record is
\* flushed before the next record is taken
ModeFixedAndFlushed ==
    /\ [](IsHttpRequest => flushes = Len(written))
    /\ [][hpc # "idle" => UNCHANGED <<req, source>>]_vars

\* C16 as claimed: the line-oriented adapter writes the raw payload followed
\* by a newline when the request's source is a single container (id or name
\* predicate) and a name-prefixed line when the source is 'all' or a filter;
\* the mode is fixed when the subscription is made, all records of a response
\* use the same mode, and every written record is flushed before the next
\* record is taken.
C16_RawOrNamePrefixed ==
    /\ [](IsHttpRequest =>
            /\ req.multi = ~SingleContainer
            /\ \A i \in 1..Len(written) :
                  /\ SingleContainer => written[i].line.fmt = "raw"
                  /\ AllOrFilter => written[i].line.fmt \in {"color", "plain"})
    /\ ModeFixedAndFlushed

\* C16 as amended: unless the request asks for JSON (Accept:
\* application/json), the line-oriented adapter writes the raw payload
\* followed by a newline when the request's source is a single container (id
\* or name predicate) and a name-prefixed line, colored unless colors=off and
\* padded to at least 16 characters and to the name's length, when the source
\* is 'all' or a filter; a request that asks for JSON gets every record as
\* its JSON encoding followed by a newline, whatever the source. The mode is
\* fixed when the subscription is made, all records of a response use the
\* same mode, and every written record is flushed before the next record is
\* taken.
C16_RawOrNamePrefixedUnlessJson ==
    /\ [](IsHttpRequest =>
            /\ req.multi = ~SingleContainer
            /\ \A i \in 1..Len(written) :
                  LET line == written[i].line
                  IN  /\ usejson => line.fmt = "json"
                      /\ (~usejson /\ SingleContainer) => line.fmt = "raw"
                      /\ (~usejson /\ AllOrFilter) =>
                            /\ line.fmt = IF usecolor THEN "color" ELSE "plain"
                            /\ line.width >= NameWidth
                            /\ line.width >= Len(line.rec.Name)
                      /\ (req.type # <<>>) => line.rec.Type = req.type)
    /\ ModeFixedAndFlushed

C16_Witness ==
    /\ IsHttpRequest
    /\ ~usejson
    /\ req.predicate = "filter"
    /\ Len(written) >= 2
    /\ written[1].line.fmt = "color" /\ written[2].line.fmt = "color"
    /\ flushes = Len(written)

\* the number of codes in one round
Rotation == 14

SeenKeys == { n \in 1..MaxNames : Key(n) \in DOMAIN returned }

\* C17: after any sequence of Get calls on one Colorizer the stored indices
\* are exactly 0..n-1 for the n distinct names seen, in first-seen order, and
\* never change; the same name always gets the same escape code, the first 14
\* distinct names get 14 pairwise distinct codes, and the name at index i
\* gets the code of the name at index i+14.
C17_StableDistinctRotating ==
    /\ [](/\ DOMAIN returned = DOMAIN colors
          /\ { colors[k] : k \in DOMAIN colors } = 0..(Cardinality(DOMAIN colors) - 1)
          /\ \A n \in SeenKeys : colors[Key(n)] = n - 1
          /\ \A k \in DOMAIN returned : Cardinality(returned[k]) = 1
          /\ \A a, b \in SeenKeys :
                (a # b /\ a <= Rotation /\ b <= Rotation) => returned[Key(a)] # returned[Key(b)]
          /\ \A a, b \in SeenKeys :
                b = a + Rotation => returned[Key(a)] = returned[Key(b)])
    /\ [][\A k \in DOMAIN colors : k \in DOMAIN colors' /\ colors'[k] = colors[k]]_vars

C17_Witness ==
    /\ Cardinality(DOMAIN colors) >= Rotation + 1
    /\ lastKey = Key(1)
    /\ returned[Key(Rotation + 1)] = {lastCode}
    /\ returned[Key(2)] # {lastCode}

====
